---- MODULE Spec2Model ----
(***************************************************************************)
(* Model of the concurrent evaluation orchestrator of                      *)
(* src/src/evaluation/llm_evaluator.py and of the result processing of the *)
(* driver in src/main.py.                                                  *)
(*                                                                         *)
(* Granularity.  The orchestrator runs on one asyncio event loop, so a     *)
(* task runs without interruption from one await to the next.  The awaits  *)
(* of evaluate_with_semaphore are the acquisition of the semaphore and the *)
(* network round trip of the call; the code after the call (decoding,      *)
(* completed += 1, progress_callback, return, release of the semaphore)    *)
(* contains no await and is one action.  The callback is the driver's      *)
(* update_progress (src/main.py), which updates two widgets and does not   *)
(* raise.                                                                  *)
(***************************************************************************)
EXTENDS Integers, Sequences, FiniteSets, TLC

(***************************************************************************)
(* Bounds.                                                                 *)
(***************************************************************************)
MaxStudents == 3
MaxConcurrent == 2

AllNames == <<"Alice", "Bob", "Jane Doe", "Dan", "Eve", "Fay">>

(***************************************************************************)
(* JSON values.  A scalar or array value is [t, v, items]; an element of   *)
(* an array and the top level of a response are [form, fields].  A string  *)
(* value is identified by the number v (0 is the empty string).            *)
(***************************************************************************)
NoFields == [k \in {} |-> 0]

JStr(v) == [t |-> "string", v |-> v, items |-> <<>>]
JInt(v) == [t |-> "integer", v |-> v, items |-> <<>>]
JFloat(v) == [t |-> "float", v |-> v, items |-> <<>>]
JNull == [t |-> "null", v |-> 0, items |-> <<>>]
JArr(items) == [t |-> "array", v |-> 0, items |-> items]

Item(fields) == [form |-> "object", fields |-> fields]
StrItem == [form |-> "string", fields |-> NoFields]

\* response.choices[0].message.content: None, a text that is not JSON, or
\* the text of a JSON object or of a JSON array.
ContentNone == [form |-> "none", fields |-> NoFields, text |-> 0]
ContentText(n) == [form |-> "text", fields |-> NoFields, text |-> n]
ContentObject(fields) == [form |-> "object", fields |-> fields, text |-> 0]
ContentArray == [form |-> "array", fields |-> NoFields, text |-> 0]

\* EVALUATION_JSON_SCHEMA
TopRequired == {"feedback_general", "criteres", "note_finale", "note_max"}
TopTypes == [feedback_general |-> {"string"}, criteres |-> {"array"},
             note_finale |-> {"integer", "float"}, note_max |-> {"integer", "float"}]
CritRequired == {"nom", "note", "note_max", "commentaire"}
CritTypes == [nom |-> {"string"}, note |-> {"integer"},
              note_max |-> {"integer"}, commentaire |-> {"string"}]

ItemConforms(c) ==
    /\ c.form = "object"
    /\ DOMAIN c.fields = CritRequired
    /\ \A k \in CritRequired : c.fields[k].t \in CritTypes[k]

ConformsToSchema(content) ==
    /\ content.form = "object"
    /\ DOMAIN content.fields = TopRequired
    /\ \A k \in TopRequired : content.fields[k].t \in TopTypes[k]
    /\ \A i \in 1..Len(content.fields["criteres"].items) :
          ItemConforms(content.fields["criteres"].items[i])

(***************************************************************************)
(* Exceptions and the values of the evaluation calls.                      *)
(***************************************************************************)
Exc(name) == [type |-> "Exception", exc |-> name]

CallErrors == {"APIConnectionError", "APITimeoutError"}

\* What the awaited client.chat.completions.create gives: it raises, or it
\* returns a response with a message content.
Raises(e) == [raised |-> e, content |-> ContentNone]
Returns(content) == [raised |-> "none", content |-> content]
NoResponse == [raised |-> "pending", content |-> ContentNone]

\* The objects python iterates over in `for c in result_json["criteres"]`;
\* the characters of a string are strings, a number or null is not iterable.
Iterable(val) == val.t \in {"array", "string"}
IterItems(val) ==
    IF val.t = "array" THEN val.items
    ELSE IF val.v = 0 THEN <<>> ELSE <<StrItem>>

\* c["nom"], c["note"], c["note_max"], c["commentaire"] for one element.
ItemError(c) ==
    IF c.form # "object" THEN "TypeError"
    ELSE IF \E k \in CritRequired : k \notin DOMAIN c.fields THEN "KeyError"
    ELSE "none"

\* Variant: the score is clamped to the maximum.
CriterionEvaluationClamped(c) ==
    [nom |-> c.fields["nom"],
     note |-> IF c.fields["note"].v > c.fields["note_max"].v
              THEN c.fields["note_max"] ELSE c.fields["note"],
     note_max |-> c.fields["note_max"], commentaire |-> c.fields["commentaire"]]

CriterionEvaluation(c) ==
    [nom |-> c.fields["nom"], note |-> c.fields["note"],
     note_max |-> c.fields["note_max"], commentaire |-> c.fields["commentaire"]]

FirstItemError(items) ==
    IF \E i \in 1..Len(items) : ItemError(items[i]) # "none"
    THEN LET i == CHOOSE j \in 1..Len(items) :
                    /\ ItemError(items[j]) # "none"
                    /\ \A h \in 1..(j-1) : ItemError(items[h]) = "none"
         IN ItemError(items[i])
    ELSE "none"

\* evaluate_student_work_async, from the awaited response on.  A value of
\* type "Exception" is the exception the coroutine raises.
evaluate_student_work_async(student_name, response) ==
    IF response.raised # "none" THEN Exc(response.raised)
    ELSE LET content == response.content IN
      IF content.form = "none" THEN Exc("TypeError")
      ELSE IF content.form = "text" THEN Exc("JSONDecodeError")
      ELSE IF content.form = "array" THEN Exc("TypeError")
      ELSE IF "criteres" \notin DOMAIN content.fields THEN Exc("KeyError")
      ELSE LET cr == content.fields["criteres"] IN
        IF ~Iterable(cr) THEN Exc("TypeError")
        ELSE IF FirstItemError(IterItems(cr)) # "none"
          THEN Exc(FirstItemError(IterItems(cr)))
        ELSE IF \E k \in {"feedback_general", "note_finale", "note_max"} :
                    k \notin DOMAIN content.fields
          THEN Exc("KeyError")
        ELSE [type |-> "EvaluationResult",
              student_name |-> student_name,
              feedback_general |-> content.fields["feedback_general"],
              criteres |-> [i \in 1..Len(IterItems(cr)) |->
                               CriterionEvaluation(IterItems(cr)[i])],
              note_finale |-> content.fields["note_finale"],
              note_max |-> content.fields["note_max"]]

\* Variant: the text of the response is normalised before it is returned.
free_format_normalised(student_name, response) ==
    IF response.raised # "none" THEN Exc(response.raised)
    ELSE [type |-> "str",
          content |-> IF response.content.form = "text"
                      THEN ContentText(1) ELSE response.content]

\* evaluate_student_work_free_format_async, from the awaited response on.
evaluate_student_work_free_format_async(student_name, response) ==
    IF response.raised # "none" THEN Exc(response.raised)
    ELSE [type |-> "str", content |-> response.content]

(***************************************************************************)
(* Responses the model of the language model can give.                     *)
(***************************************************************************)
GoodItem == Item([nom |-> JStr(2), note |-> JInt(3), note_max |-> JInt(5),
                  commentaire |-> JStr(3)])
GoodFields == [feedback_general |-> JStr(1), criteres |-> JArr(<<GoodItem>>),
               note_finale |-> JFloat(15), note_max |-> JInt(20)]
Conforming == ContentObject(GoodFields)

Without(f, k) == [x \in DOMAIN f \ {k} |-> f[x]]
With(f, k, val) == [x \in DOMAIN f \cup {k} |-> IF x = k THEN val ELSE f[x]]

\* The responses of the runs over several students.
RunContents(m) ==
    IF m = "structured"
    THEN {Conforming, ContentObject(Without(GoodFields, "note_finale"))}
    ELSE {ContentText(1), ContentText(0)}

\* The responses of the runs over one student: the conforming response and
\* its defects.
GoodItem2 == Item([nom |-> JStr(7), note |-> JInt(0), note_max |-> JInt(5),
                   commentaire |-> JStr(8)])
WrongTop ==
    [feedback_general |-> {JInt(1), JNull},
     criteres |-> {JStr(0), JStr(5), JInt(1), JNull},
     note_finale |-> {JStr(6), JNull},
     note_max |-> {JStr(6)}]
WrongCrit ==
    [nom |-> {JInt(1)}, note |-> {JStr(6), JFloat(3)},
     note_max |-> {JStr(6), JNull}, commentaire |-> {JInt(1)}]
Anomalies ==
    {With(GoodItem.fields, "note", JInt(7)),
     With(GoodItem.fields, "note", JInt(-1)),
     With(GoodItem.fields, "note_max", JInt(-5))}
ItemFields ==
    {GoodItem.fields, With(GoodItem.fields, "extra", JStr(4))}
    \cup {Without(GoodItem.fields, k) : k \in CritRequired}
    \cup UNION {{With(GoodItem.fields, k, v) : v \in WrongCrit[k]} :
                    k \in CritRequired}
    \cup Anomalies
ItemLists ==
    {<<>>, <<StrItem>>, <<GoodItem, StrItem>>, <<GoodItem, GoodItem2>>}
    \cup {<<Item(f)>> : f \in ItemFields}
    \cup {<<GoodItem, Item(Without(GoodItem.fields, k))>> : k \in CritRequired}
\* Every anomaly at once: a score above its maximum, a negative score, a
\* negative maximum, and a final score above the maximum.
AnomalousItems == <<Item(With(GoodItem.fields, "note", JInt(7))),
                    Item(With(GoodItem.fields, "note", JInt(-1))),
                    Item(With(GoodItem.fields, "note_max", JInt(-5)))>>
AllAnomalies ==
    ContentObject(With(With(GoodFields, "criteres", JArr(AnomalousItems)),
                       "note_finale", JFloat(25)))
StructuredContents ==
    {ContentNone, ContentText(1), ContentArray, AllAnomalies,
     ContentObject(With(GoodFields, "extra", JStr(4))),
     ContentObject(With(GoodFields, "note_finale", JFloat(25)))}
    \cup {ContentObject(Without(GoodFields, k)) : k \in TopRequired}
    \cup UNION {{ContentObject(With(GoodFields, k, v)) : v \in WrongTop[k]} :
                    k \in TopRequired}
    \cup {ContentObject(With(GoodFields, "criteres", JArr(l))) : l \in ItemLists}
FreeContents ==
    {ContentNone, ContentText(0), ContentText(1), ContentText(2), Conforming}

CallContents(m) ==
    IF m = "structured" THEN StructuredContents ELSE FreeContents

(***************************************************************************)
(* Strings.  A string of the archive layer is the sequence of its          *)
(* characters.                                                             *)
(***************************************************************************)
DigitChars == {"0", "1", "2", "3", "4", "5", "6", "7", "8", "9"}
WhitespaceChars == {" ", "\t", "\n"}
UpperChars == {"A", "B", "D", "E", "J", "T", "X", "M", "C", "O", "S"}
AlnumChars ==
    DigitChars \cup UpperChars
    \cup {"a", "b", "c", "d", "e", "f", "g", "h", "i", "j", "k", "l", "m",
          "n", "o", "p", "q", "r", "s", "t", "u", "v", "w", "x", "y", "z"}

\* s[i:].startswith(lit)
StartsWithAt(s, i, lit) ==
    /\ i + Len(lit) - 1 <= Len(s)
    /\ \A j \in 1..Len(lit) : s[i + j - 1] = lit[j]

\* lit in s
Contains(s, lit) == \E i \in 1..Len(s) : StartsWithAt(s, i, lit)

\* s.strip()
strip(s) ==
    LET keep == {i \in 1..Len(s) : s[i] \notin WhitespaceChars}
    IN IF keep = {} THEN <<>>
       ELSE SubSeq(s, CHOOSE i \in keep : \A j \in keep : i <= j,
                      CHOOSE i \in keep : \A j \in keep : i >= j)

\* s.lower(), for the letters of the file extensions.
LowerChar(c) ==
    CASE c = "A" -> "a" [] c = "B" -> "b" [] c = "C" -> "c" [] c = "D" -> "d"
      [] c = "E" -> "e" [] c = "J" -> "j" [] c = "M" -> "m" [] c = "O" -> "o"
      [] c = "S" -> "s" [] c = "T" -> "t" [] c = "X" -> "x"
      [] OTHER -> c
lower(s) == [i \in 1..Len(s) |-> LowerChar(s[i])]

\* The components of s.split("/").
RECURSIVE SplitSlash(_, _, _)
SplitSlash(s, i, cur) ==
    IF i > Len(s) THEN <<cur>>
    ELSE IF s[i] = "/" THEN <<cur>> \o SplitSlash(s, i + 1, <<>>)
    ELSE SplitSlash(s, i + 1, Append(cur, s[i]))

\* PurePosixPath(s).parts: the root if any, then the components that are
\* neither empty nor ".".
PathParts(s) ==
    LET comps == SelectSeq(SplitSlash(s, 1, <<>>),
                           LAMBDA c : c # <<>> /\ c # <<".">>)
    IN IF s # <<>> /\ s[1] = "/" THEN <<<<"/">>>> \o comps ELSE comps

\* The last of the parts, unless it is the root.
LastPart(parts) ==
    IF parts = <<>> \/ parts[Len(parts)] = <<"/">> THEN <<>>
    ELSE parts[Len(parts)]

\* PurePosixPath(s).name
PathName(s) == LastPart(PathParts(s))

\* The suffix of a name: from its last dot on, when that dot is neither the
\* first nor the last character.
SuffixOf(name) ==
    LET dots == {i \in 1..Len(name) : name[i] = "."}
    IN IF dots = {} THEN <<>>
       ELSE LET i == CHOOSE d \in dots : \A e \in dots : d >= e
            IN IF 1 < i /\ i < Len(name) THEN SubSeq(name, i, Len(name))
               ELSE <<>>

\* PurePosixPath(s).suffix
PathSuffix(s) == SuffixOf(PathName(s))

(***************************************************************************)
(* src/src/parsers/zip_handler.py                                          *)
(***************************************************************************)
MoodleLiteral == <<"_", "a", "s", "s", "i", "g", "n", "s", "u", "b", "m", "i", "s", "s", "i", "o", "n", "_">>
MacMarker == <<"_", "_", "M", "A", "C", "O", "S", "X">>

\* The number of digits of s from position i on.
RECURSIVE DigitRun(_, _)
DigitRun(s, i) ==
    IF i <= Len(s) /\ s[i] \in DigitChars THEN 1 + DigitRun(s, i + 1) ELSE 0

\* ^(.+?)_\d+_assignsubmission_ matches with a group of k characters; the
\* dot matches every character but the line break.
MoodleMatchAt(s, k) ==
    /\ k >= 1
    /\ \A i \in 1..k : i <= Len(s) => s[i] # "\n"
    /\ k + 1 <= Len(s)
    /\ s[k + 1] = "_"
    /\ DigitRun(s, k + 2) >= 1
    /\ StartsWithAt(s, k + 2 + DigitRun(s, k + 2), MoodleLiteral)

MoodleMatches(s) == \E k \in 1..Len(s) : MoodleMatchAt(s, k)

\* Variant: the group is greedy, the longest one is taken.
MoodleGroupGreedy(s) ==
    SubSeq(s, 1, CHOOSE k \in 1..Len(s) :
                    /\ MoodleMatchAt(s, k)
                    /\ \A h \in (k + 1)..Len(s) : ~MoodleMatchAt(s, h))

\* match.group(1): the group is non-greedy, the shortest one is taken.
MoodleGroup(s) ==
    SubSeq(s, 1, CHOOSE k \in 1..Len(s) :
                    /\ MoodleMatchAt(s, k)
                    /\ \A h \in 1..(k - 1) : ~MoodleMatchAt(s, h))

\* extract_student_name_from_moodle_folder: [none |-> TRUE] is None.
NoName == [none |-> TRUE, name |-> <<>>]
SomeName(n) == [none |-> FALSE, name |-> n]
extract_student_name_from_moodle_folder(folder_name) ==
    IF MoodleMatches(folder_name)
    THEN SomeName(strip(MoodleGroup(folder_name)))
    ELSE NoName

\* if moodle_name:
Truthy(moodle_name) == ~moodle_name.none /\ moodle_name.name # <<>>

\* file_info.is_dir()
is_dir(filename) == filename # <<>> /\ filename[Len(filename)] = "/"

\* Variant: hidden files are not skipped.
skipped_but_hidden(filename) ==
    \/ is_dir(filename)
    \/ Contains(filename, MacMarker)
    \/ Len(PathParts(filename)) < 2

\* The entry is skipped by one of the four `continue`.
skipped(filename) ==
    \/ is_dir(filename)
    \/ Contains(filename, MacMarker)
    \/ StartsWithAt(PathName(filename), 1, <<".">>)
    \/ Len(PathParts(filename)) < 2

\* The loop over parts[:-1], then the fallback to parts[0].
RECURSIVE first_moodle_name(_, _)
first_moodle_name(parts, i) ==
    IF i > Len(parts) - 1 THEN NoName
    ELSE IF Truthy(extract_student_name_from_moodle_folder(parts[i]))
         THEN extract_student_name_from_moodle_folder(parts[i])
         ELSE first_moodle_name(parts, i + 1)

\* Variant: the folder that holds the file.
fallback_parent(parts) == parts[Len(parts) - 1]

fallback_name(parts) == parts[1]

\* Variant: the leaf filename is searched for the pattern too.
derive_student_name_leaf_too(filename) ==
    LET parts == PathParts(filename)
        found == first_moodle_name(Append(parts, <<>>), 1)
    IN IF found.none THEN fallback_name(parts) ELSE found.name

derive_student_name(filename) ==
    LET parts == PathParts(filename)
        found == first_moodle_name(parts, 1)
    IN IF found.none THEN fallback_name(parts) ELSE found.name

\* zf.read(file_info.filename): the archive is read by name, and a name
\* designates the last entry of the archive that bears it.
zf_read(entries, filename) ==
    LET same == {i \in 1..Len(entries) : entries[i].filename = filename}
    IN entries[CHOOSE i \in same : \A j \in same : i >= j].data

\* students[student_name].append((filename, content)); the dict keeps the
\* order in which its keys were inserted.
dict_append(d, key, item) ==
    IF \E i \in 1..Len(d) : d[i].name = key
    THEN [i \in 1..Len(d) |->
            IF d[i].name = key
            THEN [name |-> key, files |-> Append(d[i].files, item)]
            ELSE d[i]]
    ELSE Append(d, [name |-> key, files |-> <<item>>])

\* extract_student_submissions, from the opened archive on.
RECURSIVE extract_entries(_, _, _)
extract_entries(entries, i, d) ==
    IF i > Len(entries) THEN d
    ELSE IF skipped(entries[i].filename)
         THEN extract_entries(entries, i + 1, d)
         ELSE extract_entries(entries, i + 1,
                 dict_append(d, derive_student_name(entries[i].filename),
                             [filename |-> PathName(entries[i].filename),
                              content |-> zf_read(entries, entries[i].filename)]))

\* Variant: bytes that are not an archive give the empty dict.
extract_student_submissions_lenient(zip) ==
    [raised |-> "none",
     value |-> IF zip.valid THEN extract_entries(zip.entries, 1, <<>>)
               ELSE <<>>]

\* zipfile.ZipFile(io.BytesIO(zip_content)) raises BadZipFile when the bytes
\* are not an archive.
extract_student_submissions(zip) ==
    IF zip.valid
    THEN [raised |-> "none", value |-> extract_entries(zip.entries, 1, <<>>)]
    ELSE [raised |-> "BadZipFile", value |-> <<>>]

\* get_supported_extensions, by the parser that reads them.
BinaryExtensions ==
    {<<".", "p", "d", "f">>, <<".", "d", "o", "c", "x">>,
     <<".", "x", "l", "s", "x">>, <<".", "x", "l", "s">>}
TextExtensions ==
    {<<".", "h", "t", "m", "l">>, <<".", "h", "t", "m">>,
     <<".", "t", "x", "t">>, <<".", "m", "d">>}
get_supported_extensions == BinaryExtensions \cup TextExtensions

\* What parse_document gives: a text ("text", or "empty" for the empty
\* string), None ("none"), or the exception of the parser.
Parsed(t) == [raised |-> "none", text |-> t]
ParserRaises == [raised |-> "ParserError", text |-> "none"]

\* parse_pdf, parse_docx, parse_excel: the library raises when it cannot open
\* the bytes.
parse_binary(content) ==
    IF content = "corrupt" THEN ParserRaises
    ELSE IF content = "blank" THEN Parsed("empty")
    ELSE Parsed("text")

\* parse_html and content.decode("utf-8", errors="replace") never raise.
parse_text(content) ==
    IF content = "blank" THEN Parsed("empty") ELSE Parsed("text")

\* The if / elif chain over ext.
parse_by_extension(ext, content) ==
    IF ext \in BinaryExtensions THEN parse_binary(content)
    ELSE IF ext \in TextExtensions THEN parse_text(content)
    ELSE Parsed("none")

\* ext = PurePosixPath(filename).suffix.lower()
parse_document(filename, content) ==
    parse_by_extension(lower(PathSuffix(filename)), content)

\* if parsed:
HasText(p) == p.text = "text"

(***************************************************************************)
(* src/src/export/markdown_export.py and combined_export.py                *)
(***************************************************************************)
\* c if c.isalnum() or c in (" ", "-", "_") else "_"
sanitize_filename(name) ==
    [i \in 1..Len(name) |->
        IF name[i] \in AlnumChars \cup {" ", "-", "_"} THEN name[i] ELSE "_"]

WordDir == <<"w", "o", "r", "d", "/">>
MarkdownDir == <<"m", "a", "r", "k", "d", "o", "w", "n", "/">>
DocxSuffix == <<".", "d", "o", "c", "x">>
TxtSuffix == <<".", "t", "x", "t">>
ExcelReport ==
    <<"e", "v", "a", "l", "u", "a", "t", "i", "o", "n", "s", "_", "e", "t",
      "u", "d", "i", "a", "n", "t", "s", ".", "x", "l", "s", "x">>

\* zf.writestr(path, ...): an entry of the archive, with the students whose
\* evaluations it is made of.
ZipEntry(path, kind, names) == [path |-> path, kind |-> kind, of |-> names]

word_entry(student_name) ==
    ZipEntry(WordDir \o sanitize_filename(student_name) \o DocxSuffix, "word",
             <<student_name>>)
markdown_entry(student_name) ==
    ZipEntry(MarkdownDir \o sanitize_filename(student_name) \o TxtSuffix,
             "markdown", <<student_name>>)

\* create_combined_export_word and create_combined_export_free_format: per
\* evaluation, the Word document then the markdown text.
RECURSIVE create_combined_export_word(_)
create_combined_export_word(evals) ==
    IF evals = <<>> THEN <<>>
    ELSE <<word_entry(Head(evals).student_name),
           markdown_entry(Head(evals).student_name)>>
         \o create_combined_export_word(Tail(evals))

create_combined_export_free_format(evals) == create_combined_export_word(evals)

\* create_combined_export_excel: the workbook, then the markdown texts.
create_combined_export_excel(evals) ==
    <<ZipEntry(ExcelReport, "excel",
               [i \in 1..Len(evals) |-> evals[i].student_name])>>
    \o [i \in 1..Len(evals) |-> markdown_entry(evals[i].student_name)]

\* Variant: the last evaluation is left out of the archive.
create_combined_export_but_last(fmt, evals) ==
    LET kept == SubSeq(evals, 1, Len(evals) - 1)
    IN IF fmt = "word_free" THEN create_combined_export_free_format(kept)
       ELSE IF fmt = "excel" THEN create_combined_export_excel(kept)
       ELSE create_combined_export_word(kept)

\* The export the driver calls for the chosen output format.
create_combined_export(fmt, evals) ==
    IF fmt = "word_free" THEN create_combined_export_free_format(evals)
    ELSE IF fmt = "excel" THEN create_combined_export_excel(evals)
    ELSE create_combined_export_word(evals)

(***************************************************************************)
(* The user prompt: the list prompt_parts, joined by line breaks.  A part   *)
(* is a heading or the text of a section; names is the student name written *)
(* in the part, work_of the student whose work the part is.                 *)
(***************************************************************************)
Heading(section, text, names) ==
    [section |-> section, role |-> "heading", text |-> text, names |-> names,
     work_of |-> <<>>]
Body(section, text) ==
    [section |-> section, role |-> "body", text |-> text, names |-> <<>>,
     work_of |-> <<>>]
WorkBody(student_work) ==
    [section |-> "student", role |-> "body", text |-> student_work.text,
     names |-> <<>>, work_of |-> student_work.work_of]

\* The value of student_submissions for the student.
WorkOf(student_name) == [text |-> "work", work_of |-> <<student_name>>]

RubricSection(evaluation_grid) ==
    <<Heading("rubric", "## Grille d'evaluation\n", <<>>),
      Body("rubric", evaluation_grid)>>
KnowledgeSection(knowledge_base) ==
    <<Heading("knowledge",
              "\n\n## Base de connaissances / Documents de reference\n", <<>>),
      Body("knowledge", knowledge_base)>>
CustomSection(custom_instructions) ==
    <<Heading("custom",
              "\n\n## Instructions supplementaires du professeur\n", <<>>),
      Body("custom", custom_instructions)>>
FormatSection(output_format_instructions) ==
    <<Heading("format", "\n\n## Format de sortie attendu\n", <<>>),
      Body("format", output_format_instructions)>>

\* if text:
NonEmpty(text) == text # ""

\* Variant: the custom instructions come before the knowledge base.
build_evaluation_prompt_custom_first(student_work, evaluation_grid, knowledge_base, custom_instructions) ==
    RubricSection(evaluation_grid)
    \o (IF NonEmpty(custom_instructions)
        THEN CustomSection(custom_instructions) ELSE <<>>)
    \o (IF NonEmpty(knowledge_base)
        THEN KnowledgeSection(knowledge_base) ELSE <<>>)
    \o <<Heading("student", "\n\n## Travail de l'etudiant a evaluer\n", <<>>),
         WorkBody(student_work)>>

build_evaluation_prompt(student_work, evaluation_grid, knowledge_base, custom_instructions) ==
    RubricSection(evaluation_grid)
    \o (IF NonEmpty(knowledge_base)
        THEN KnowledgeSection(knowledge_base) ELSE <<>>)
    \o (IF NonEmpty(custom_instructions)
        THEN CustomSection(custom_instructions) ELSE <<>>)
    \o <<Heading("student", "\n\n## Travail de l'etudiant a evaluer\n", <<>>),
         WorkBody(student_work)>>

\* The prompt of evaluate_student_work_free_format_async.
free_format_prompt(student_name, student_work, evaluation_grid, knowledge_base, output_format_instructions, custom_instructions) ==
    (IF NonEmpty(evaluation_grid)
     THEN RubricSection(evaluation_grid) ELSE <<>>)
    \o (IF NonEmpty(knowledge_base)
        THEN KnowledgeSection(knowledge_base) ELSE <<>>)
    \o (IF NonEmpty(custom_instructions)
        THEN CustomSection(custom_instructions) ELSE <<>>)
    \o FormatSection(output_format_instructions)
    \o <<Heading("student", "\n\n## Travail de l'etudiant (name) a evaluer\n",
                 <<student_name>>),
         WorkBody(student_work)>>

\* The user prompt of the call made for the student.
user_prompt(m, student_name, ctx) ==
    IF m = "structured"
    THEN build_evaluation_prompt(WorkOf(student_name), ctx.evaluation_grid,
                                 ctx.knowledge_base, ctx.custom_instructions)
    ELSE free_format_prompt(student_name, WorkOf(student_name),
                            ctx.evaluation_grid, ctx.knowledge_base,
                            ctx.output_format_instructions,
                            ctx.custom_instructions)

\* The texts given to the orchestrator.
Contexts ==
    [evaluation_grid : {"", "grid"}, knowledge_base : {"", "kb"},
     custom_instructions : {"", "ci"},
     output_format_instructions : {"", "fmt"}]
DefaultContext ==
    [evaluation_grid |-> "grid", knowledge_base |-> "kb",
     custom_instructions |-> "ci", output_format_instructions |-> "fmt"]
NoRequest == <<>>

(***************************************************************************)
(* State.                                                                  *)
(***************************************************************************)
VARIABLES
    mode,                 \* "structured": evaluate_all_students_async,
                          \* "free": evaluate_all_students_free_format_async
    student_submissions,  \* the keys of the dict, in insertion order
    max_concurrent,
    progress_callback,    \* whether a callback is given
    content,              \* per student, what the model answers when the call
                          \* does not raise
    semaphore,            \* value of asyncio.Semaphore(max_concurrent)
    completed,
    state,                \* per task: "waiting", "inflight", "ready", "done",
                          \* "raised"
    response,             \* per task, what the awaited call gave
    task_result,          \* per task, the value it returned or raised
    progress,             \* the calls of progress_callback, in order
    pc,                   \* "gather", "returned", "raised", "processed"
    results,              \* the list asyncio.gather returns
    evaluations,          \* driver: evaluations / free_evaluations
    errors,               \* driver: the st.error reports of failed students
    zip_content,          \* driver: the uploaded archive
    students,             \* driver: the dict extract_student_submissions gives
    parsed_submissions,   \* driver: per readable student, the parts of its text
    messages,             \* driver: the other st.error / st.warning reports
    output_format,        \* driver: "excel", "word_structured", "word_free"
    artifact,             \* driver: the archive offered for download
    context,              \* evaluation_grid, knowledge_base,
                          \* custom_instructions, output_format_instructions
    callback_faulty,      \* whether progress_callback can raise
    request               \* per task, the user prompt of its call

vars == <<mode, student_submissions, max_concurrent, progress_callback,
          content, semaphore, completed, state, response, task_result,
          progress, pc, results, evaluations, errors, zip_content, students,
          parsed_submissions, messages, output_format, artifact, context,
          callback_faulty, request>>

driver_vars == <<zip_content, students, parsed_submissions, messages,
                 output_format, artifact>>

\* The parameters of the orchestrator that are given to every call.
call_params == <<context, callback_faulty>>

Students == {student_submissions[i] : i \in 1..Len(student_submissions)}
total == Len(student_submissions)

NoResult == [type |-> "pending"]
NoZip == [valid |-> TRUE, entries |-> <<>>]
NoArtifact == [offered |-> FALSE, entries |-> <<>>]

(***************************************************************************)
(* evaluate_with_semaphore: the try/except around the call.                *)
(***************************************************************************)
ExceptionSubclasses ==
    CallErrors \cup {"JSONDecodeError", "KeyError", "TypeError",
                     "CallbackError"}

\* What a raising progress_callback raises.
CallbackError == Exc("CallbackError")

\* Whether one invocation of progress_callback can raise: only a callback
\* that is given and that is not the driver's update_progress.
CallbackRaises(cb, faulty) == IF cb /\ faulty THEN BOOLEAN ELSE {FALSE}

\* isinstance(result, Exception)
IsException(v) == v.type = "Exception"

\* Variant: only the errors of the client are caught.
CaughtClientErrors(e) == e.exc \in CallErrors

\* except Exception as e
Caught(e) == e.exc \in ExceptionSubclasses

call_unit(m, student_name, resp) ==
    IF m = "structured"
    THEN evaluate_student_work_async(student_name, resp)
    ELSE evaluate_student_work_free_format_async(student_name, resp)

\* The value the task gives to gather: how is "return" or "raise".
structured_outcome(student_name, inner) ==
    IF IsException(inner)
    THEN IF Caught(inner) THEN [how |-> "return", value |-> inner]
         ELSE [how |-> "raise", value |-> inner]
    ELSE [how |-> "return", value |-> inner]

free_outcome(student_name, inner) ==
    IF IsException(inner)
    THEN IF Caught(inner)
         THEN [how |-> "return",
               value |-> [type |-> "tuple", student_name |-> student_name,
                          result |-> inner]]
         ELSE [how |-> "raise", value |-> inner]
    ELSE [how |-> "return",
          value |-> [type |-> "tuple", student_name |-> student_name,
                     result |-> inner]]

task_outcome(m, student_name, inner) ==
    IF m = "structured" THEN structured_outcome(student_name, inner)
    ELSE free_outcome(student_name, inner)

\* Variant: the except branch does not count.
completed_after_try_only(c, inner) ==
    IF IsException(inner) THEN c ELSE c + 1

\* completed += 1, in the try branch and in the except branch.
completed_after(c, inner) ==
    IF IsException(inner)
    THEN IF Caught(inner) THEN c + 1 ELSE c
    ELSE c + 1

\* Variant: the except branch does not notify.
progress_after_try_only(log, cb, c, t, student_name, inner) ==
    IF cb /\ ~IsException(inner)
    THEN Append(log, [completed |-> c, total |-> t,
                      student_name |-> student_name])
    ELSE log

\* if progress_callback: progress_callback(completed, total, student_name)
progress_after(log, cb, c, t, student_name, inner) ==
    IF cb /\ (IsException(inner) => Caught(inner))
    THEN Append(log, [completed |-> c, total |-> t,
                      student_name |-> student_name])
    ELSE log

\* Variant: one slot too many.
semaphore_init_plus_one(limit) == limit + 1

\* semaphore = asyncio.Semaphore(max_concurrent)
semaphore_init(limit) == limit

\* Variant: a call that raised gives back one slot more than it took.
semaphore_after_extra_release_on_error(sem, inner) ==
    IF IsException(inner) THEN sem + 2 ELSE sem + 1

\* Variant: the slot is not given back when the call raised.
semaphore_after_no_release_on_error(sem, inner) ==
    IF IsException(inner) THEN sem ELSE sem + 1

\* async with semaphore: the slot is given back when the block is left, by
\* return or by exception.
semaphore_after(sem, inner) == sem + 1

\* Variant: not done without a task.
gather_done_needs_a_task(st) ==
    /\ DOMAIN st # {}
    /\ \/ \E s \in DOMAIN st : st[s] = "raised"
       \/ \A s \in DOMAIN st : st[s] = "done"

\* Variant: done as soon as one task has ended.
gather_done_first_completed(st) ==
    \E s \in DOMAIN st : st[s] \in {"done", "raised"}

\* asyncio.gather without return_exceptions: it is done when every task has
\* returned, or as soon as one task has raised.
gather_done(st) ==
    \/ \E s \in DOMAIN st : st[s] = "raised"
    \/ \A s \in DOMAIN st : st[s] = "done"

\* Variant: the values of the tasks, the last task first.
gather_results_reversed(order, tr) ==
    [i \in 1..Len(order) |-> tr[order[Len(order) + 1 - i]]]

\* Variant: the values of the tasks but the first.
gather_results_drop_first(order, tr) ==
    [i \in 1..(Len(order) - 1) |-> tr[order[i + 1]]]

\* The list gather returns: the tasks' values in the order of the tasks.
gather_results(order, tr) == [i \in 1..Len(order) |-> tr[order[i]]]

(***************************************************************************)
(* Initial states: the orchestrator has been called and has created one    *)
(* task per student.                                                       *)
(***************************************************************************)
InitRun(N, m, contents, contexts, faulty) ==
    /\ mode = m
    /\ student_submissions = SubSeq(AllNames, 1, N)
    /\ max_concurrent \in 1..MaxConcurrent
    /\ progress_callback \in BOOLEAN
    /\ content \in [{AllNames[i] : i \in 1..N} -> contents]
    /\ semaphore = semaphore_init(max_concurrent)
    /\ completed = 0
    /\ state = [s \in {AllNames[i] : i \in 1..N} |-> "waiting"]
    /\ response = [s \in {AllNames[i] : i \in 1..N} |-> NoResponse]
    /\ task_result = [s \in {AllNames[i] : i \in 1..N} |-> NoResult]
    /\ progress = <<>>
    /\ pc = "gather"
    /\ results = <<>>
    /\ evaluations = <<>>
    /\ errors = <<>>
    /\ zip_content = NoZip
    /\ students = <<>>
    /\ parsed_submissions = <<>>
    /\ messages = <<>>
    /\ output_format = (IF m = "free" THEN "word_free" ELSE "word_structured")
    /\ artifact = NoArtifact
    /\ context \in contexts
    /\ callback_faulty \in faulty
    /\ request = [s \in {AllNames[i] : i \in 1..N} |-> NoRequest]

\* The driver's run: its texts are not empty and its callback, update_progress,
\* does not raise.
InitWith(N, m, contents) == InitRun(N, m, contents, {DefaultContext}, {FALSE})

Init ==
    \E N \in 0..MaxStudents : \E m \in {"structured", "free"} :
        InitWith(N, m, RunContents(m))

\* One call: a run over one student, with every response of CallContents.
InitCall ==
    \E m \in {"structured", "free"} : InitWith(1, m, CallContents(m))

(***************************************************************************)
(* Actions.                                                                *)
(***************************************************************************)
\* async with semaphore: the task acquires the semaphore and starts the call.
Acquire(s) ==
    /\ pc = "gather"
    /\ state[s] = "waiting"
    /\ semaphore > 0
    /\ semaphore' = semaphore - 1
    /\ state' = [state EXCEPT ![s] = "inflight"]
    /\ UNCHANGED <<mode, student_submissions, max_concurrent,
                   progress_callback, content, completed, response,
                   task_result, progress, pc, results, evaluations, errors>>
    /\ request' = [request EXCEPT ![s] = user_prompt(mode, s, context)]
    /\ UNCHANGED driver_vars
    /\ UNCHANGED call_params

\* The awaited client.chat.completions.create returns or raises.
CallCompletes(s) ==
    /\ pc = "gather"
    /\ state[s] = "inflight"
    /\ \E r \in {Returns(content[s])} \cup {Raises(e) : e \in CallErrors} :
          response' = [response EXCEPT ![s] = r]
    /\ state' = [state EXCEPT ![s] = "ready"]
    /\ UNCHANGED <<mode, student_submissions, max_concurrent,
                   progress_callback, content, semaphore, completed,
                   task_result, progress, pc, results, evaluations, errors>>
    /\ UNCHANGED driver_vars
    /\ UNCHANGED <<call_params, request>>

\* The value the task ends with: the result of the call, or the exception
\* that the except branch caught, which is the exception of the call or the
\* one the callback raised in the try branch.
ended_with(inner, in_try) ==
    IF ~IsException(inner) /\ in_try THEN CallbackError ELSE inner

\* The end of the task: an exception that the callback raises in the except
\* branch leaves the task, any other value is returned.
task_end(m, student_name, e, in_except) ==
    IF IsException(e) /\ Caught(e) /\ in_except
    THEN [how |-> "raise", value |-> CallbackError]
    ELSE task_outcome(m, student_name, e)

\* The task resumes after the await and runs to its end: the try branch
\* counts and notifies; if the call or the callback raised, the except branch
\* counts and notifies (again).
Resume(s) ==
    /\ pc = "gather"
    /\ state[s] = "ready"
    /\ \E in_try, in_except \in CallbackRaises(progress_callback,
                                               callback_faulty) :
        LET inner == call_unit(mode, s, response[s])
            e == ended_with(inner, in_try)
            c1 == completed_after(completed, inner)
            p1 == progress_after(progress, progress_callback, c1, total, s,
                                 inner)
            c == IF e = inner THEN c1 ELSE completed_after(c1, e)
            out == task_end(mode, s, e, in_except)
        IN /\ completed' = c
           /\ progress' = IF e = inner THEN p1
                          ELSE progress_after(p1, progress_callback, c,
                                              total, s, e)
           /\ task_result' = [task_result EXCEPT ![s] = out.value]
           /\ state' = [state EXCEPT
                          ![s] = IF out.how = "return" THEN "done"
                                 ELSE "raised"]
           /\ semaphore' = semaphore_after(semaphore, e)
    /\ UNCHANGED <<mode, student_submissions, max_concurrent,
                   progress_callback, content, response, pc, results,
                   evaluations, errors>>
    /\ UNCHANGED driver_vars
    /\ UNCHANGED <<call_params, request>>

\* return await asyncio.gather(*tasks)
Gather ==
    /\ pc = "gather"
    /\ gather_done(state)
    /\ IF \E s \in Students : state[s] = "raised"
       THEN /\ pc' = "raised"
            /\ results' = <<>>
       ELSE /\ pc' = "returned"
            /\ results' = gather_results(student_submissions, task_result)
    /\ UNCHANGED <<mode, student_submissions, max_concurrent,
                   progress_callback, content, semaphore, completed, state,
                   response, task_result, progress, evaluations, errors>>
    /\ UNCHANGED driver_vars
    /\ UNCHANGED <<call_params, request>>

\* The driver's loop over the results.
free_evaluation(r) == [student_name |-> r.student_name, content |-> r.result.content]
free_error(r) == [student_name |-> r.student_name, error |-> r.result.exc]
structured_error(r) == [error |-> r.exc]

RECURSIVE process_free(_, _, _)
process_free(rs, evals, errs) ==
    IF rs = <<>> THEN <<evals, errs>>
    ELSE IF IsException(Head(rs).result)
         THEN process_free(Tail(rs), evals, Append(errs, free_error(Head(rs))))
         ELSE process_free(Tail(rs), Append(evals, free_evaluation(Head(rs))), errs)

RECURSIVE process_structured(_, _, _)
process_structured(rs, evals, errs) ==
    IF rs = <<>> THEN <<evals, errs>>
    ELSE IF IsException(Head(rs))
         THEN process_structured(Tail(rs), evals,
                                 Append(errs, structured_error(Head(rs))))
         ELSE process_structured(Tail(rs), Append(evals, Head(rs)), errs)

ProcessResults ==
    /\ pc = "returned"
    /\ pc' = "processed"
    /\ LET p == IF mode = "structured"
                THEN process_structured(results, <<>>, <<>>)
                ELSE process_free(results, <<>>, <<>>)
       IN /\ evaluations' = p[1]
          /\ errors' = p[2]
    /\ UNCHANGED <<mode, student_submissions, max_concurrent,
                   progress_callback, content, semaphore, completed, state,
                   response, task_result, progress, results>>
    /\ UNCHANGED driver_vars
    /\ UNCHANGED <<call_params, request>>

Next ==
    \/ \E s \in Students : Acquire(s)
    \/ \E s \in Students : CallCompletes(s)
    \/ \E s \in Students : Resume(s)
    \/ Gather
    \/ ProcessResults

Spec == Init /\ [][Next]_vars

CallSpec == InitCall /\ [][Next]_vars

\* One call, with every combination of empty and non-empty texts.
InitPrompt ==
    \E m \in {"structured", "free"} :
        InitRun(1, m, RunContents(m), Contexts, {FALSE})

PromptSpec == InitPrompt /\ [][Next]_vars

\* Runs with a callback that can raise at each of its invocations.
MaxCallbackStudents == 2

InitCallback ==
    \E N \in 0..MaxCallbackStudents : \E m \in {"structured", "free"} :
        /\ InitRun(N, m, RunContents(m), {DefaultContext}, {TRUE})
        /\ progress_callback

CallbackSpec == InitCallback /\ [][Next]_vars

\* Runs under the scheduling of the event loop: a task that can take a permit,
\* a task whose call has ended and a gather that is done are eventually run,
\* and every started call eventually returns or raises.
MaxLiveStudents == 2

InitLive ==
    \E N \in 0..MaxLiveStudents : \E m \in {"structured", "free"} :
        InitWith(N, m, RunContents(m))

LiveSpec ==
    /\ InitLive
    /\ [][Next]_vars
    /\ \A s \in {AllNames[i] : i \in 1..MaxLiveStudents} :
          /\ WF_vars(s \in Students /\ Acquire(s))
          /\ WF_vars(s \in Students /\ CallCompletes(s))
          /\ WF_vars(s \in Students /\ Resume(s))
    /\ WF_vars(Gather)

(***************************************************************************)
(* The archives given to extract_student_submissions.                      *)
(***************************************************************************)
MaxEntries == 2

AliceReport ==
    <<"A", "l", "i", "c", "e", "/", "r", "e", "p", "o", "r", "t", ".", "p", "d", "f">>
BobReport ==
    <<"B", "o", "b", "/", "r", "e", "p", "o", "r", "t", ".", "p", "d", "f">>
AliceEssay ==
    <<"A", "l", "i", "c", "e", "/", "e", "s", "s", "a", "y", ".", "d", "o", "c", "x">>
JaneFile ==
    <<"A", "s", "s", "i", "g", "n", "m", "e", "n", "t", "1", "/", "J", "a", "n", "e", " ", "D", "o", "e", "_", "9", "9", "_", "a", "s", "s", "i", "g", "n", "s", "u", "b", "m", "i", "s", "s", "i", "o", "n", "_", "f", "i", "l", "e", "/", "e", "s", "s", "a", "y", ".", "d", "o", "c", "x">>
JaneOnline ==
    <<"A", "s", "s", "i", "g", "n", "m", "e", "n", "t", "1", "/", "J", "a", "n", "e", " ", "D", "o", "e", "_", "1", "2", "_", "a", "s", "s", "i", "g", "n", "s", "u", "b", "m", "i", "s", "s", "i", "o", "n", "_", "o", "n", "l", "i", "n", "e", "t", "e", "x", "t", "/", "r", "e", "p", "o", "r", "t", ".", "p", "d", "f">>
JaneSimple ==
    <<"J", "a", "n", "e", " ", "D", "o", "e", "/", "e", "s", "s", "a", "y", ".", "d", "o", "c", "x">>
BobOverAlice ==
    <<"B", "o", "b", "_", "7", "_", "a", "s", "s", "i", "g", "n", "s", "u", "b", "m", "i", "s", "s", "i", "o", "n", "_", "f", "i", "l", "e", "/", "A", "l", "i", "c", "e", "_", "3", "_", "a", "s", "s", "i", "g", "n", "s", "u", "b", "m", "i", "s", "s", "i", "o", "n", "_", "f", "i", "l", "e", "/", "e", "s", "s", "a", "y", ".", "d", "o", "c", "x">>
BlankCapture ==
    <<"A", "s", "s", "i", "g", "n", "m", "e", "n", "t", "1", "/", " ", "_", "5", "_", "a", "s", "s", "i", "g", "n", "s", "u", "b", "m", "i", "s", "s", "i", "o", "n", "_", "f", "i", "l", "e", "/", "e", "s", "s", "a", "y", ".", "d", "o", "c", "x">>
BlankThenAlice ==
    <<" ", "_", "5", "_", "a", "s", "s", "i", "g", "n", "s", "u", "b", "m", "i", "s", "s", "i", "o", "n", "_", "f", "i", "l", "e", "/", "A", "l", "i", "c", "e", "_", "3", "_", "a", "s", "s", "i", "g", "n", "s", "u", "b", "m", "i", "s", "s", "i", "o", "n", "_", "f", "i", "l", "e", "/", "e", "s", "s", "a", "y", ".", "d", "o", "c", "x">>
WrongCase ==
    <<"A", "s", "s", "i", "g", "n", "m", "e", "n", "t", "1", "/", "J", "a", "n", "e", " ", "D", "o", "e", "_", "9", "9", "_", "A", "s", "s", "i", "g", "n", "s", "u", "b", "m", "i", "s", "s", "i", "o", "n", "_", "f", "i", "l", "e", "/", "e", "s", "s", "a", "y", ".", "d", "o", "c", "x">>
LeafMatches ==
    <<"A", "l", "i", "c", "e", "/", "E", "v", "e", "_", "3", "_", "a", "s", "s", "i", "g", "n", "s", "u", "b", "m", "i", "s", "s", "i", "o", "n", "_", "f", "i", "l", "e", ".", "t", "x", "t">>
MacResource ==
    <<"_", "_", "M", "A", "C", "O", "S", "X", "/", ".", "_", "e", "s", "s", "a", "y", ".", "d", "o", "c", "x">>
MacInside ==
    <<"A", "l", "i", "c", "e", "/", "_", "_", "M", "A", "C", "O", "S", "X", "/", "r", "e", "p", "o", "r", "t", ".", "p", "d", "f">>
RootReadme ==
    <<"r", "e", "a", "d", "m", "e", ".", "t", "x", "t">>
DotRootReadme ==
    <<".", "/", "r", "e", "a", "d", "m", "e", ".", "t", "x", "t">>
Hidden ==
    <<"A", "l", "i", "c", "e", "/", ".", "h", "i", "d", "d", "e", "n">>
AliceDir ==
    <<"A", "l", "i", "c", "e", "/">>

EntryNames ==
    {AliceReport,
     BobReport,
     AliceEssay,
     JaneFile,
     JaneOnline,
     JaneSimple,
     BobOverAlice,
     BlankCapture,
     BlankThenAlice,
     WrongCase,
     LeafMatches,
     MacResource,
     MacInside,
     RootReadme,
     DotRootReadme,
     Hidden,
     AliceDir}

\* The bytes of an entry are identified by what a parser finds in them.
Entries ==
    [filename : EntryNames, data : {"text"}]
    \cup [filename : {AliceReport, BobReport}, data : {"blank"}]

SeqsUpTo(S, n) == UNION {[1..k -> S] : k \in 0..n}

Archives == [valid : {TRUE}, entries : SeqsUpTo(Entries, MaxEntries)]

\* The state before the driver's script has started on the archive.
InitDriverWith(zip, fmt) ==
    /\ zip_content = zip
    /\ output_format = fmt
    /\ mode = (IF fmt = "word_free" THEN "free" ELSE "structured")
    /\ max_concurrent \in 1..MaxConcurrent
    /\ progress_callback = TRUE
    /\ student_submissions = <<>>
    /\ content = <<>>
    /\ semaphore = 0
    /\ completed = 0
    /\ state = <<>>
    /\ response = <<>>
    /\ task_result = <<>>
    /\ progress = <<>>
    /\ pc = "start"
    /\ results = <<>>
    /\ evaluations = <<>>
    /\ errors = <<>>
    /\ students = <<>>
    /\ parsed_submissions = <<>>
    /\ messages = <<>>
    /\ artifact = NoArtifact
    /\ context = DefaultContext
    /\ callback_faulty = FALSE
    /\ request = <<>>

InitExtract ==
    \E zip \in Archives : InitDriverWith(zip, "word_structured")

Message(level, about, student) ==
    [level |-> level, about |-> about, student |-> student]

\* The driver's extraction step: an exception of the extraction is not
\* caught and ends the run; an empty dict is reported and stops the run.
Extract ==
    /\ pc = "start"
    /\ LET r == extract_student_submissions(zip_content)
       IN IF r.raised # "none"
          THEN /\ pc' = "failed"
               /\ students' = <<>>
               /\ messages' = Append(messages, Message("exception", r.raised, <<>>))
          ELSE IF r.value = <<>>
          THEN /\ pc' = "stopped"
               /\ students' = r.value
               /\ messages' = Append(messages, Message("error", "no_students", <<>>))
          ELSE /\ pc' = "extracted"
               /\ students' = r.value
               /\ messages' = Append(messages, Message("success", "students_found", <<>>))
    /\ UNCHANGED <<mode, student_submissions, max_concurrent,
                   progress_callback, content, semaphore, completed, state,
                   response, task_result, progress, results, evaluations,
                   errors, zip_content, parsed_submissions, output_format,
                   artifact, context, callback_faulty, request>>

ExtractNext == Extract

ExtractSpec == InitExtract /\ [][ExtractNext]_vars

(***************************************************************************)
(* The folder names given to extract_student_name_from_moodle_folder: one   *)
(* folder per archive, made of a name, a separator, digits, a token and a   *)
(* suffix.                                                                  *)
(***************************************************************************)
MaxDigits == 2

SegmentNames ==
    {<<>>, <<"a">>, <<" ">>, <<" ", "J", "o", " ">>,
     <<"a", "_", "1", "_", "b">>, <<"a", "\n", "b">>,
     <<"a", "_", "1">> \o MoodleLiteral \o <<"b">>}
SegmentSeparators == {<<>>, <<"_">>}
SegmentDigits == UNION {[1..k -> {"1", "2"}] : k \in 0..MaxDigits}
SegmentTokens ==
    {MoodleLiteral,
     <<"_", "A", "s", "s", "i", "g", "n", "s", "u", "b", "m", "i", "s", "s", "i", "o", "n", "_">>,
     <<"_", "a", "s", "s", "i", "g", "n", "s", "u", "b", "m", "i", "s", "s", "i", "o", "n">>,
     <<"_", "a", "s", "s", "i", "g", "n", "_">>}
SegmentSuffixes == {<<>>, <<"f", "i", "l", "e">>}

Segments ==
    {((n \o sep) \o d) \o (t \o x) :
        n \in SegmentNames, sep \in SegmentSeparators, d \in SegmentDigits,
        t \in SegmentTokens, x \in SegmentSuffixes}

EssayLeaf == <<"/", "e", "s", "s", "a", "y", ".", "d", "o", "c", "x">>

InitSegment ==
    \E seg \in Segments :
        InitDriverWith([valid |-> TRUE,
                        entries |-> <<[filename |-> seg \o EssayLeaf,
                                       data |-> "text"]>>],
                       "word_structured")

SegmentSpec == InitSegment /\ [][ExtractNext]_vars

(***************************************************************************)
(* The driver, from the archive to the download.                           *)
(***************************************************************************)
MaxDriverEntries == 2

AlicePhoto ==
    <<"A", "l", "i", "c", "e", "/", "p", "h", "o", "t", "o", ".", "p", "n", "g">>
BobNotes ==
    <<"B", "o", "b", "/", "n", "o", "t", "e", "s", ".", "T", "X", "T">>

DriverEntries ==
    [filename : {AliceReport}, data : {"text", "blank", "corrupt"}]
    \cup [filename : {AlicePhoto}, data : {"text"}]
    \cup [filename : {BobNotes}, data : {"text", "blank"}]

NotAnArchive == [valid |-> FALSE, entries |-> <<>>]

DriverArchives ==
    [valid : {TRUE}, entries : SeqsUpTo(DriverEntries, MaxDriverEntries)]
    \cup {NotAnArchive}

OutputFormats == {"excel", "word_structured", "word_free"}

InitDriver ==
    \E zip \in DriverArchives : \E fmt \in OutputFormats :
        InitDriverWith(zip, fmt)

\* The index of the first outcome that is an exception, Len + 1 if none.
FirstRaise(outcomes) ==
    IF \E i \in 1..Len(outcomes) : outcomes[i].raised # "none"
    THEN CHOOSE i \in 1..Len(outcomes) :
            /\ outcomes[i].raised # "none"
            /\ \A h \in 1..(i - 1) : outcomes[h].raised = "none"
    ELSE Len(outcomes) + 1

\* The inner loop of the normalization, given what parse_document makes of
\* each file: the files are taken in order until a parser raises; the files
\* that give a text are kept.
collect_parts(files, outcomes) ==
    LET stop == FirstRaise(outcomes)
        kept == {i \in 1..(stop - 1) : HasText(outcomes[i])}
        nth(k) == CHOOSE i \in kept : Cardinality({h \in kept : h <= i}) = k
    IN [raised |-> IF stop <= Len(files) THEN outcomes[stop].raised ELSE "none",
        parts |-> [k \in 1..Cardinality(kept) |-> files[nth(k)].filename]]

parse_files(files) ==
    collect_parts(files,
        [i \in 1..Len(files) |->
            parse_document(files[i].filename, files[i].content)])

\* The outer loop, given what the inner loop makes of each student: the
\* students are taken in the order of the dict until a parser raises; a
\* student with a part is put in parsed_submissions, a student without one
\* is warned about.
collect_students(d, outcomes) ==
    LET stop == FirstRaise(outcomes)
        readable == {i \in 1..(stop - 1) : outcomes[i].parts # <<>>}
        unreadable == {i \in 1..(stop - 1) : outcomes[i].parts = <<>>}
        nth(S, k) == CHOOSE i \in S : Cardinality({h \in S : h <= i}) = k
    IN [raised |-> IF stop <= Len(d) THEN outcomes[stop].raised ELSE "none",
        parsed |-> [k \in 1..Cardinality(readable) |->
                      [name |-> d[nth(readable, k)].name,
                       parts |-> outcomes[nth(readable, k)].parts]],
        warnings |-> [k \in 1..Cardinality(unreadable) |->
                        Message("warning", "no_readable_file",
                                d[nth(unreadable, k)].name)]]

parse_students(d) ==
    collect_students(d, [i \in 1..Len(d) |-> parse_files(d[i].files)])

\* Variant: an empty parsed_submissions does not stop the run.
never_empty(d) == FALSE

\* if not student_submissions: / if not parsed_submissions:
is_empty(d) == d = <<>>

\* The exception of a parser is not caught and ends the run; an empty
\* parsed_submissions is reported and stops the run.
after_normalization(r) ==
    /\ parsed_submissions' = r.parsed
    /\ IF r.raised # "none"
       THEN /\ pc' = "failed"
            /\ messages' = (messages \o r.warnings)
                             \o <<Message("exception", r.raised, <<>>)>>
       ELSE IF is_empty(r.parsed)
       THEN /\ pc' = "stopped"
            /\ messages' = (messages \o r.warnings)
                             \o <<Message("error", "no_readable", <<>>)>>
       ELSE /\ pc' = "normalized"
            /\ messages' = messages \o r.warnings

Normalize ==
    /\ pc = "extracted"
    /\ after_normalization(parse_students(students))
    /\ UNCHANGED <<mode, student_submissions, max_concurrent,
                   progress_callback, content, semaphore, completed, state,
                   response, task_result, progress, results, evaluations,
                   errors, zip_content, students, output_format, artifact,
                   context, callback_faulty, request>>

\* if output_format == "word_free": ... else: ...
evaluation_mode(fmt) == IF fmt = "word_free" THEN "free" ELSE "structured"

\* asyncio.run(evaluate_all_students..._async(...)): the orchestrator creates
\* the semaphore and one task per key of parsed_submissions.
StartEvaluation ==
    /\ pc = "normalized"
    /\ pc' = "gather"
    /\ mode' = evaluation_mode(output_format)
    /\ LET names == [i \in 1..Len(parsed_submissions) |->
                        parsed_submissions[i].name]
           keys == {names[i] : i \in 1..Len(names)}
       IN /\ student_submissions' = names
          /\ content' \in [keys -> RunContents(evaluation_mode(output_format))]
          /\ state' = [s \in keys |-> "waiting"]
          /\ response' = [s \in keys |-> NoResponse]
          /\ task_result' = [s \in keys |-> NoResult]
          /\ request' = [s \in keys |-> NoRequest]
    /\ semaphore' = semaphore_init(max_concurrent)
    /\ completed' = 0
    /\ progress' = <<>>
    /\ UNCHANGED <<max_concurrent, progress_callback, results, evaluations,
                   errors>>
    /\ UNCHANGED driver_vars
    /\ UNCHANGED call_params

\* if evaluations: the archive is generated and offered for download;
\* else: st.error.
Render ==
    /\ pc = "processed"
    /\ pc' = "finished"
    /\ IF ~is_empty(evaluations)
       THEN /\ artifact' = [offered |-> TRUE,
                            entries |-> create_combined_export(output_format,
                                                               evaluations)]
            /\ messages' = Append(messages, Message("success", "evaluated", <<>>))
       ELSE /\ artifact' = artifact
            /\ messages' = Append(messages, Message("error", "no_evaluation", <<>>))
    /\ UNCHANGED <<mode, student_submissions, max_concurrent,
                   progress_callback, content, semaphore, completed, state,
                   response, task_result, progress, results, evaluations,
                   errors, zip_content, students, parsed_submissions,
                   output_format, context, callback_faulty, request>>

DriverNext ==
    \/ Extract
    \/ Normalize
    \/ StartEvaluation
    \/ \E s \in Students : Acquire(s)
    \/ \E s \in Students : CallCompletes(s)
    \/ \E s \in Students : Resume(s)
    \/ Gather
    \/ ProcessResults
    \/ Render

DriverSpec == InitDriver /\ [][DriverNext]_vars

(***************************************************************************)
(* The driver, once the results have been processed: the rendering of runs *)
(* in which every call succeeded.                                          *)
(***************************************************************************)
MaxRendered == 2

RenderNames ==
    {<<"A", "l", "i", "c", "e">>,
     <<"B", "o", "b">>,
     <<"J", ".", "D", "o", "e">>,
     <<"J", "_", "D", "o", "e">>,
     <<"J", " ", "D", "o", "e">>,
     <<"J", "-", "D", "o", "e">>}

NotesFile == <<"/", "n", "o", "t", "e", "s", ".", "t", "x", "t">>

\* The lists of pairwise distinct student names.
RenderedLists ==
    {q \in SeqsUpTo(RenderNames, MaxRendered) :
        /\ q # <<>>
        /\ \A i, j \in 1..Len(q) : i # j => q[i] # q[j]}

GoodContent(m) == IF m = "structured" THEN Conforming ELSE ContentText(1)

\* The state of the driver after a run over one folder per name, in which
\* the calls succeeded one after the other.
InitRender ==
    \E names \in RenderedLists : \E fmt \in OutputFormats :
      LET m == evaluation_mode(fmt)
          keys == {names[i] : i \in 1..Len(names)}
          zip == [valid |-> TRUE,
                  entries |-> [i \in 1..Len(names) |->
                                 [filename |-> names[i] \o NotesFile,
                                  data |-> "text"]]]
          d == extract_student_submissions(zip).value
          tr == [s \in keys |->
                    task_outcome(m, s,
                        call_unit(m, s, Returns(GoodContent(m)))).value]
          rs == gather_results(names, tr)
          p == IF m = "structured" THEN process_structured(rs, <<>>, <<>>)
               ELSE process_free(rs, <<>>, <<>>)
      IN /\ zip_content = zip
         /\ output_format = fmt
         /\ mode = m
         /\ max_concurrent \in 1..MaxConcurrent
         /\ progress_callback = TRUE
         /\ students = d
         /\ parsed_submissions = parse_students(d).parsed
         /\ messages = <<Message("success", "students_found", <<>>)>>
         /\ student_submissions = names
         /\ content = [s \in keys |-> GoodContent(m)]
         /\ semaphore = semaphore_init(max_concurrent)
         /\ completed = Len(names)
         /\ state = [s \in keys |-> "done"]
         /\ response = [s \in keys |-> Returns(GoodContent(m))]
         /\ task_result = tr
         /\ progress = [i \in 1..Len(names) |->
                          [completed |-> i, total |-> Len(names),
                           student_name |-> names[i]]]
         /\ pc = "processed"
         /\ results = rs
         /\ evaluations = p[1]
         /\ errors = p[2]
         /\ artifact = NoArtifact
         /\ context = DefaultContext
         /\ callback_faulty = FALSE
         /\ request = [s \in keys |-> user_prompt(m, s, DefaultContext)]

RenderNext == Render

RenderSpec == InitRender /\ [][RenderNext]_vars

(***************************************************************************)
(* Properties.                                                             *)
(***************************************************************************)
Returned == pc \in {"returned", "processed"}
Holders == {s \in Students : state[s] \in {"inflight", "ready"}}
Index(s) == CHOOSE i \in 1..total : student_submissions[i] = s

\* The call of the student raised: the request failed, or the response
\* could not be decoded.
CallFailed(s) == IsException(call_unit(mode, s, response[s]))

\* The exception or payload carried by an outcome of the returned list.
Payload(r) == IF mode = "structured" THEN r ELSE r.result

\* C1: whatever calls fail, the orchestrator does not raise, and when it has
\* returned the list has exactly one outcome per scheduled student, at the
\* position of that student: a failure if the student's call failed and a
\* success otherwise, no task being left pending.
C1_ExactlyNOutcomes ==
    /\ pc # "raised"
    /\ Returned =>
         /\ Len(results) = total
         /\ \A i \in 1..total :
              /\ state[student_submissions[i]] = "done"
              /\ results[i].type \in {"EvaluationResult", "Exception", "tuple"}
              /\ IsException(Payload(results[i]))
                   <=> CallFailed(student_submissions[i])

C1_Witness ==
    /\ pc = "returned"
    /\ total = MaxStudents
    /\ \E s \in Students : CallFailed(s)
    /\ \E s \in Students : ~CallFailed(s)

\* C2 (as claimed): every returned outcome, success or failure, in both
\* modes, carries the name of its student.
C2_EveryOutcomeTagged ==
    Returned =>
        \A i \in 1..total :
            /\ "student_name" \in DOMAIN results[i]
            /\ results[i].student_name = student_submissions[i]

\* The outcomes of the no-failure run.
NoFailureOutcome(s) ==
    task_outcome(mode, s, call_unit(mode, s, Returns(content[s]))).value
ForcedFailures == {s \in Students : response[s].raised \in CallErrors}

\* C3: the outcome of every student whose call was not forced to fail is the
\* outcome it has in the run where no call fails; a failing task cancels no
\* task (the orchestrator never raises, which would cancel the others) and
\* blocks none (a waiting task can be admitted, or a task holding a slot is
\* still to give it back).
C3_Isolation ==
    /\ pc # "raised"
    /\ Returned =>
         \A i \in 1..total :
            student_submissions[i] \notin ForcedFailures
               => results[i] = NoFailureOutcome(student_submissions[i])
    /\ (pc = "gather" /\ \E s \in Students : state[s] = "waiting")
         => (semaphore > 0 \/ Holders # {})

C3_Witness ==
    /\ pc = "returned"
    /\ total >= 2
    /\ Cardinality(ForcedFailures) = 1
    /\ \A s \in Students \ ForcedFailures : ~IsException(Payload(results[Index(s)]))

\* C4: the number of tasks whose call is started and which have not yet
\* left the semaphore block never exceeds max_concurrent.
C4_ConcurrencyBound == Cardinality(Holders) <= max_concurrent

C4_Witness ==
    /\ Cardinality({s \in Students : state[s] = "inflight"}) = max_concurrent
    /\ \E s \in Students : state[s] = "waiting"
    /\ \E s \in Students : state[s] = "done"

\* C5: the orchestrator has returned only if every task is terminal, each
\* with its call started and ended (its response received) and its value
\* set, also when a task failed while others were not yet admitted; the
\* orchestrator never ends early by raising.
C5_ReturnsWhenAllTerminal ==
    /\ pc # "raised"
    /\ Returned =>
         \A s \in Students :
            /\ state[s] = "done"
            /\ response[s] # NoResponse
            /\ task_result[s] # NoResult

\* A failure happened while another task was not yet admitted: with one
\* slot, the first task to complete failed.
C5_Witness ==
    /\ pc = "returned"
    /\ max_concurrent = 1
    /\ total >= 2
    /\ progress_callback
    /\ CallFailed(progress[1].student_name)

C7_AtomicIncrementNotify ==
    [][progress_callback =>
          /\ completed' # completed =>
                /\ completed' = completed + 1
                /\ Len(progress') = Len(progress) + 1
                /\ progress'[Len(progress')].completed = completed'
                /\ SubSeq(progress', 1, Len(progress)) = progress
          /\ progress' # progress => completed' # completed]_vars

\* Two calls have returned and their tasks are both about to resume, after
\* a first notification.
C7_Witness ==
    /\ progress_callback
    /\ Len(progress) = 1
    /\ Cardinality({s \in Students : state[s] = "ready"}) >= 2
    /\ \E s \in Students : state[s] = "ready" /\ CallFailed(s)

\* C8: the orchestrator never raises, and when it has returned, the outcome
\* of every student whose call raised is the exception of that call.
C8_FailuresAreData ==
    /\ pc # "raised"
    /\ \A s \in Students : state[s] # "raised"
    /\ Returned =>
         \A i \in 1..total :
            LET inner == call_unit(mode, student_submissions[i],
                                   response[student_submissions[i]])
            IN IsException(inner) => Payload(results[i]) = inner

C8_Witness ==
    /\ pc = "returned"
    /\ \E s \in Students : response[s].raised = "APIConnectionError"
    /\ \E s \in Students : response[s].raised = "APITimeoutError"
    /\ \E s \in Students : response[s].raised = "none" /\ CallFailed(s)

\* C9 (as claimed): in structured mode a response that does not conform to
\* the schema never gives a success outcome.
C9_NonConformingFails ==
    \A s \in Students :
        (/\ mode = "structured"
         /\ state[s] = "done"
         /\ response[s].raised = "none"
         /\ ~ConformsToSchema(response[s].content))
            => IsException(task_result[s])

\* C10: in free-form mode, the outcome of a student whose call returned a
\* non-empty text is the pair of the student's name and that text, and the
\* driver hands the same pair to the renderer.
NonEmptyText(c) == c.form \in {"text", "object", "array"} /\ ~(c.form = "text" /\ c.text = 0)

C10_FreeFormUnmodified ==
    \A i \in 1..total :
        LET s == student_submissions[i] IN
        (/\ mode = "free"
         /\ response[s].raised = "none"
         /\ NonEmptyText(response[s].content))
            => /\ Returned =>
                    /\ results[i].student_name = s
                    /\ results[i].result.type = "str"
                    /\ results[i].result.content = content[s]
               /\ pc = "processed" =>
                    \E k \in 1..Len(evaluations) :
                        /\ evaluations[k].student_name = s
                        /\ evaluations[k].content = content[s]

C10_Witness ==
    /\ pc = "processed"
    /\ mode = "free"
    /\ \E s \in Students :
          /\ response[s].raised = "none"
          /\ content[s] = ContentText(2)
    /\ Len(evaluations) = 1

\* C11: in structured mode a response that conforms to the schema gives a
\* success whose final score, maximum and criteria carry the values of the
\* response as they are, also when a score exceeds its maximum or a value
\* is negative.
C11_AnomaliesPassThrough ==
    \A s \in Students :
        (/\ mode = "structured"
         /\ state[s] = "done"
         /\ response[s].raised = "none"
         /\ ConformsToSchema(response[s].content))
            => LET f == response[s].content.fields
                   r == task_result[s]
               IN /\ r.type = "EvaluationResult"
                  /\ r.note_finale = f["note_finale"]
                  /\ r.note_max = f["note_max"]
                  /\ Len(r.criteres) = Len(f["criteres"].items)
                  /\ \A i \in 1..Len(r.criteres) :
                        /\ r.criteres[i].note = f["criteres"].items[i].fields["note"]
                        /\ r.criteres[i].note_max =
                              f["criteres"].items[i].fields["note_max"]

C11_Witness ==
    /\ pc = "processed"
    /\ mode = "structured"
    /\ \E s \in Students :
          /\ response[s] = Returns(AllAnomalies)
          /\ Len(evaluations) = 1
          /\ evaluations[1].note_finale.v > evaluations[1].note_max.v
          /\ evaluations[1].criteres[1].note.v > evaluations[1].criteres[1].note_max.v
          /\ evaluations[1].criteres[2].note.v < 0
          /\ evaluations[1].criteres[3].note_max.v < 0

(***************************************************************************)
(* Properties of the extraction.                                           *)
(***************************************************************************)
Extracted == pc \in {"extracted", "stopped"}
ArchiveEntries == zip_content.entries
Leaf(i) == PathName(ArchiveEntries[i].filename)
Folders(i) ==
    LET parts == PathParts(ArchiveEntries[i].filename)
    IN SubSeq(parts, 1, Len(parts) - 1)

\* The entries the extraction is to ignore: a directory entry, a path that
\* contains the metadata marker, a leaf name that starts with a dot, a
\* file at the root of the archive.
IgnoredEntry(i) ==
    LET fn == ArchiveEntries[i].filename
    IN \/ fn[Len(fn)] = "/"
       \/ Contains(fn, MacMarker)
       \/ PathName(fn)[1] = "."
       \/ Len(PathParts(fn)) < 2
KeptEntries == {i \in 1..Len(ArchiveEntries) : ~IgnoredEntry(i)}

StudentKeys == {students[k].name : k \in 1..Len(students)}
FilesOf(n) ==
    IF n \in StudentKeys
    THEN students[CHOOSE k \in 1..Len(students) : students[k].name = n].files
    ELSE <<>>
HasFile(n, leaf) ==
    \E j \in 1..Len(FilesOf(n)) : FilesOf(n)[j].filename = leaf
NamesAndFiles ==
    [k \in 1..Len(students) |->
        [name |-> students[k].name,
         files |-> [j \in 1..Len(students[k].files) |->
                       students[k].files[j].filename]]]
FileCount(d) ==
    Cardinality({<<k, j>> \in (1..Len(d)) \X (1..MaxEntries + 1) :
                    j <= Len(d[k].files)})

\* C12: a kept entry none of whose folders matches the pattern is filed
\* under the student named by its first path segment; the archive
\* Alice/report.pdf, Bob/report.pdf gives {Alice: [report.pdf],
\* Bob: [report.pdf]}.
C12_SimpleLayout ==
    Extracted =>
        /\ \A i \in KeptEntries :
              (\A f \in 1..Len(Folders(i)) : ~MoodleMatches(Folders(i)[f]))
                 => HasFile(PathParts(ArchiveEntries[i].filename)[1], Leaf(i))
        /\ [i \in 1..Len(ArchiveEntries) |-> ArchiveEntries[i].filename]
              = <<AliceReport, BobReport>>
             => NamesAndFiles =
                  <<[name |-> <<"A", "l", "i", "c", "e">>,
                     files |-> <<PathName(AliceReport)>>],
                    [name |-> <<"B", "o", "b">>,
                     files |-> <<PathName(BobReport)>>]>>

C12_Witness ==
    /\ pc = "extracted"
    /\ [i \in 1..Len(ArchiveEntries) |-> ArchiveEntries[i].filename]
          = <<AliceReport, BobReport>>
    /\ Len(students) = 2

\* The shallowest folder of the entry that matches the pattern.
ShallowestMatch(i) ==
    Folders(i)[CHOOSE f \in 1..Len(Folders(i)) :
                  /\ MoodleMatches(Folders(i)[f])
                  /\ \A g \in 1..(f - 1) : ~MoodleMatches(Folders(i)[g])]

\* C13 (as claimed): a kept entry with a folder that matches the pattern is
\* filed under the trimmed captured name of the shallowest matching folder,
\* whatever the captured text is.
C13_ShallowestMatchWins ==
    Extracted =>
        \A i \in KeptEntries :
            (\E f \in 1..Len(Folders(i)) : MoodleMatches(Folders(i)[f]))
               => HasFile(strip(MoodleGroup(ShallowestMatch(i))), Leaf(i))

\* C14: the files of the dict are as many as the kept entries, every file
\* of the dict is the leaf of a kept entry, every key has a file, and an
\* archive of ignored entries only gives the empty dict.
C14_IgnoredEntries ==
    Extracted =>
        /\ FileCount(students) = Cardinality(KeptEntries)
        /\ \A k \in 1..Len(students) :
              /\ students[k].files # <<>>
              /\ \A j \in 1..Len(students[k].files) :
                    \E i \in KeptEntries :
                        Leaf(i) = students[k].files[j].filename
        /\ KeptEntries = {} => students = <<>>

C14_Witness ==
    /\ Extracted
    /\ Len(ArchiveEntries) = MaxEntries
    /\ \E i \in 1..Len(ArchiveEntries) :
          /\ IgnoredEntry(i)
          /\ ArchiveEntries[i].filename \in {MacResource, Hidden}
    /\ \E i \in 1..Len(ArchiveEntries) : ~IgnoredEntry(i)
    /\ Len(students) = 1

\* The kept entries that derive the name n, in the order of the archive.
RECURSIVE EntriesOf(_, _)
EntriesOf(n, i) ==
    IF i > Len(ArchiveEntries) THEN <<>>
    ELSE IF i \in KeptEntries
            /\ derive_student_name(ArchiveEntries[i].filename) = n
         THEN <<[filename |-> Leaf(i), content |-> ArchiveEntries[i].data]>>
                 \o EntriesOf(n, i + 1)
         ELSE EntriesOf(n, i + 1)

\* C15 (as claimed): the files of a student are the kept entries that derive
\* its name, each with its own bytes, in the order of the archive.
C15_Grouping ==
    Extracted =>
        /\ StudentKeys =
             {derive_student_name(ArchiveEntries[i].filename) : i \in KeptEntries}
        /\ \A n \in StudentKeys : FilesOf(n) = EntriesOf(n, 1)

(***************************************************************************)
(* Properties of the driver.                                               *)
(***************************************************************************)
\* A call has been started for the student.
CallStarted(s) == state[s] # "waiting"
AnyCallStarted == \E s \in DOMAIN state : CallStarted(s)
LastMessage == messages[Len(messages)]
Evaluating == pc \in {"gather", "returned", "raised", "processed", "finished"}

\* C16: when the bytes are not a valid archive, the extraction fails with
\* the archive-format error and gives no mapping; the run ends there, without
\* any evaluation call and without any download.
C16_InvalidArchiveFatal ==
    ~zip_content.valid =>
        /\ extract_student_submissions(zip_content).raised = "BadZipFile"
        /\ extract_student_submissions(zip_content).value = <<>>
        /\ pc \in {"start", "failed"}
        /\ students = <<>>
        /\ ~AnyCallStarted
        /\ ~artifact.offered
        /\ pc = "failed" =>
              messages = <<Message("exception", "BadZipFile", <<>>)>>

C16_Witness == ~zip_content.valid /\ pc = "failed"

\* The extracted students with at least one file from which parse_document
\* gives a non-empty text.
YieldsText(file) ==
    /\ parse_document(file.filename, file.content).raised = "none"
    /\ HasText(parse_document(file.filename, file.content))
ReadableStudents ==
    {students[i].name : i \in
        {k \in 1..Len(students) :
            \E j \in 1..Len(students[k].files) : YieldsText(students[k].files[j])}}
ParsedNames == {parsed_submissions[i].name : i \in 1..Len(parsed_submissions)}
ExtractionOver == pc \notin {"start"}
NormalizationOver == pc \notin {"start", "extracted"}
ZeroStudents ==
    /\ extract_student_submissions(zip_content).raised = "none"
    /\ extract_student_submissions(zip_content).value = <<>>
ZeroReadable ==
    /\ students # <<>>
    /\ parse_students(students).raised = "none"
    /\ ReadableStudents = {}

\* C17: when the archive gives no student, or when no student has any
\* readable text, the driver reports an error and stops, and no evaluation
\* call is started in that run; in every run, a call starts only after the
\* extraction and the normalization have ended with a readable student.
C17_FatalStop ==
    /\ (ZeroStudents /\ ExtractionOver) =>
          /\ pc = "stopped"
          /\ LastMessage = Message("error", "no_students", <<>>)
          /\ ~AnyCallStarted
    /\ (ZeroReadable /\ NormalizationOver) =>
          /\ pc = "stopped"
          /\ LastMessage = Message("error", "no_readable", <<>>)
          /\ ~AnyCallStarted
    /\ pc = "stopped" => ~AnyCallStarted /\ ~artifact.offered
    /\ AnyCallStarted =>
          /\ Evaluating
          /\ students # <<>>
          /\ parsed_submissions # <<>>
          /\ ReadableStudents # {}

C17_Witness ==
    /\ ZeroReadable
    /\ pc = "stopped"
    /\ \E i \in 1..Len(messages) : messages[i].level = "warning"

\* C18: a student none of whose files gives a text is left out of the
\* mapping given to the orchestrator, and the run goes on: once the
\* normalization is over, the students given to the orchestrator, and
\* evaluated, are exactly the extracted students with at least one file that
\* gives a non-empty text.
C18_PerStudentExclusion ==
    NormalizationOver =>
        /\ ParsedNames = ReadableStudents
        /\ ReadableStudents # {} => pc \notin {"failed", "stopped"}
        /\ Evaluating => Students = ReadableStudents
        /\ pc = "finished" =>
              {s \in Students : CallStarted(s)} = ReadableStudents

\* The outcome of the student is a success.
Succeeded ==
    {s \in Students : ~IsException(Payload(task_result[s]))}
Failed == Students \ Succeeded
FailedInOrder == SelectSeq(student_submissions, LAMBDA s : s \in Failed)
ArtifactStudents ==
    UNION {{artifact.entries[i].of[k] : k \in 1..Len(artifact.entries[i].of)} :
              i \in 1..Len(artifact.entries)}
EntriesFor(s, kind) ==
    {i \in 1..Len(artifact.entries) :
        /\ artifact.entries[i].kind = kind
        /\ \E k \in 1..Len(artifact.entries[i].of) :
              artifact.entries[i].of[k] = s}
PrimaryKind == IF output_format = "excel" THEN "excel" ELSE "word"

\* C19: in a run where a student succeeds and another fails, the driver
\* still offers the archive, the archive is made of every success and of no
\* failure, and there is one error report per failed student.
C19_PartialFailure ==
    (pc = "finished" /\ Succeeded # {} /\ Failed # {}) =>
        /\ artifact.offered
        /\ ArtifactStudents = Succeeded
        /\ \A s \in Succeeded :
              /\ Cardinality(EntriesFor(s, PrimaryKind)) = 1
              /\ Cardinality(EntriesFor(s, "markdown")) = 1
        /\ Len(errors) = Cardinality(Failed)
        /\ \A i \in 1..Len(errors) :
              /\ errors[i].error = Payload(task_result[FailedInOrder[i]]).exc
              /\ mode = "free" => errors[i].student_name = FailedInOrder[i]

C19_Witness ==
    /\ pc = "finished"
    /\ Succeeded # {}
    /\ Failed # {}
    /\ artifact.offered

\* C20: for successful outcomes with pairwise distinct student names, the
\* archive of create_combined_export_word and of
\* create_combined_export_free_format holds one Word entry and one text entry
\* per student, and no two entries have the same path.
C20_DistinctEntryPaths ==
    (artifact.offered /\ output_format \in {"word_structured", "word_free"}) =>
        /\ \A i \in 1..Len(evaluations) :
              /\ Cardinality(EntriesFor(evaluations[i].student_name, "word")) = 1
              /\ Cardinality(EntriesFor(evaluations[i].student_name, "markdown")) = 1
        /\ \A i, j \in 1..Len(artifact.entries) :
              i # j => artifact.entries[i].path # artifact.entries[j].path

(***************************************************************************)
(* Properties of the prompt.                                               *)
(***************************************************************************)
\* The call of the student has been made, with request[s] as user prompt.
Sent(s) == request[s] # NoRequest

\* The sections of a prompt, in the order of their headings.
HeadingsOf(prompt) == SelectSeq(prompt, LAMBDA part : part.role = "heading")
SectionOrder(prompt) ==
    [i \in 1..Len(HeadingsOf(prompt)) |-> HeadingsOf(prompt)[i].section]

\* The text a section is to carry.
SectionText(section, ctx) ==
    CASE section = "rubric" -> ctx.evaluation_grid
      [] section = "knowledge" -> ctx.knowledge_base
      [] section = "custom" -> ctx.custom_instructions
      [] section = "format" -> ctx.output_format_instructions
      [] OTHER -> "work"

\* Every section is a heading followed by its text.
UnderHeadings(prompt, ctx) ==
    /\ Len(prompt) % 2 = 0
    /\ \A k \in 1..(Len(prompt) \div 2) :
          /\ prompt[2 * k - 1].role = "heading"
          /\ prompt[2 * k].role = "body"
          /\ prompt[2 * k].section = prompt[2 * k - 1].section
          /\ prompt[2 * k].text = SectionText(prompt[2 * k].section, ctx)

Optional(present, section) == IF present THEN <<section>> ELSE <<>>

\* The sections as the claim states them: only the knowledge base and the
\* custom instructions can be absent.
StatedSections(m, ctx) ==
    <<"rubric">>
    \o Optional(ctx.knowledge_base # "", "knowledge")
    \o Optional(ctx.custom_instructions # "", "custom")
    \o Optional(m = "free", "format")
    \o <<"student">>

\* The sections with, in free-form mode, a rubric that is absent when empty.
AmendedSections(m, ctx) ==
    Optional(m = "structured" \/ ctx.evaluation_grid # "", "rubric")
    \o Optional(ctx.knowledge_base # "", "knowledge")
    \o Optional(ctx.custom_instructions # "", "custom")
    \o Optional(m = "free", "format")
    \o <<"student">>

C22_PromptCarriesIdentity ==
    \A s \in Students :
        Sent(s) =>
            /\ \E i \in 1..Len(request[s]) :
                  /\ request[s][i].section = "student"
                  /\ request[s][i].work_of = <<s>>
            /\ \E i \in 1..Len(request[s]) : request[s][i].names = <<s>>

(***************************************************************************)
(* Properties of the pattern.                                              *)
(***************************************************************************)
\* The folder of the only entry of the archive.
TheSegment == PathParts(zip_content.entries[1].filename)[1]

AllDigits(q) == Len(q) >= 1 /\ \A i \in 1..Len(q) : q[i] \in DigitChars

\* seg is name, "_", digits, then what follows, with a name of i characters
\* and digits up to position j.
SplitAt(seg, i, j) ==
    /\ 1 <= i
    /\ i + 1 < j
    /\ j < Len(seg)
    /\ seg[i + 1] = "_"
    /\ AllDigits(SubSeq(seg, i + 2, j))

\* <name>_<digits>_assignsubmission_<suffix> with a name of i characters.
FormAt(seg, i) ==
    \E j \in 1..Len(seg) :
        /\ SplitAt(seg, i, j)
        /\ StartsWithAt(seg, j + 1, MoodleLiteral)
HasForm(seg) == \E i \in 1..Len(seg) : FormAt(seg, i)

\* A '_<digits>_' boundary after i characters.
BoundaryAt(seg, i) ==
    \E j \in 1..Len(seg) : SplitAt(seg, i, j) /\ seg[j + 1] = "_"

\* The text before the first '_<digits>_' boundary, trimmed.
TextBeforeFirstBoundary(seg) ==
    strip(SubSeq(seg, 1, CHOOSE i \in 1..Len(seg) :
                            /\ BoundaryAt(seg, i)
                            /\ \A h \in 1..(i - 1) : ~BoundaryAt(seg, h)))

\* C23 as stated: the function returns a name exactly when the segment is
\* <name>_<digits>_assignsubmission_<suffix> with a non-empty name, and the
\* name it returns is the trimmed text before the first '_<digits>_'
\* boundary of the segment.
C23_PatternRecognition ==
    LET r == extract_student_name_from_moodle_folder(TheSegment)
    IN /\ ~r.none <=> HasForm(TheSegment)
       /\ ~r.none => r.name = TextBeforeFirstBoundary(TheSegment)

\* The form, with a name that holds no line break.
FormOnOneLineAt(seg, i) ==
    FormAt(seg, i) /\ \A k \in 1..i : seg[k] # "\n"

\* The text before the first '_<digits>_assignsubmission_' boundary, trimmed.
TextBeforeFirstToken(seg) ==
    strip(SubSeq(seg, 1, CHOOSE i \in 1..Len(seg) :
                            /\ FormOnOneLineAt(seg, i)
                            /\ \A h \in 1..(i - 1) : ~FormOnOneLineAt(seg, h)))

\* C23 amended: the function returns a name exactly when the segment is
\* <name>_<digits>_assignsubmission_<suffix> with a non-empty name that holds
\* no line break, and the name it returns is the trimmed text before the
\* first '_<digits>_assignsubmission_' boundary; the extraction files the
\* entry under that name when it is not empty.
C23_PatternRecognitionAmended ==
    LET r == extract_student_name_from_moodle_folder(TheSegment)
        formed == \E i \in 1..Len(TheSegment) : FormOnOneLineAt(TheSegment, i)
    IN /\ ~r.none <=> formed
       /\ ~r.none => r.name = TextBeforeFirstToken(TheSegment)
       /\ (pc = "extracted" /\ ~r.none /\ r.name # <<>>) =>
             students[1].name = TextBeforeFirstToken(TheSegment)

C23_Witness ==
    /\ pc = "extracted"
    /\ TheSegment = (<<"a", "_", "1", "_", "b", "_", "2">> \o MoodleLiteral)
    /\ students[1].name = <<"a", "_", "1", "_", "b">>

\* C24: the pattern is searched in the folders of an entry and never in its
\* leaf filename: a file whose own name matches the pattern, under folders
\* none of which matches, is filed under its first path segment and not
\* under the name captured from the filename.
C24_LeafNeverExamined ==
    Extracted =>
        \A i \in KeptEntries :
            (/\ MoodleMatches(Leaf(i))
             /\ \A f \in 1..Len(Folders(i)) : ~MoodleMatches(Folders(i)[f]))
            => /\ HasFile(Folders(i)[1], Leaf(i))
               /\ strip(MoodleGroup(Leaf(i))) # Folders(i)[1]
                    => strip(MoodleGroup(Leaf(i))) \notin StudentKeys

C24_Witness ==
    /\ pc = "extracted"
    /\ Len(ArchiveEntries) = 1
    /\ ArchiveEntries[1].filename = LeafMatches
    /\ StudentKeys = {<<"A", "l", "i", "c", "e">>}

\* The number of files of the dict with this name and these bytes, and the
\* number of kept entries with this leaf name and these bytes.
Occurrences(leaf, bytes) ==
    Cardinality({<<k, j>> \in (1..Len(students)) \X (1..MaxEntries + 1) :
                    /\ j <= Len(students[k].files)
                    /\ students[k].files[j].filename = leaf
                    /\ students[k].files[j].content = bytes})
KeptLike(leaf, bytes) ==
    Cardinality({i \in KeptEntries :
                    Leaf(i) = leaf /\ ArchiveEntries[i].data = bytes})

\* C30: the extraction is a partition of the kept entries: every entry that
\* is not skipped is in the dict exactly once, under one student; the files
\* of the dict are as many as the kept entries, and no student of the dict
\* has an empty list of files.
C30_Partition ==
    Extracted =>
        /\ \A i \in KeptEntries :
              Occurrences(Leaf(i), ArchiveEntries[i].data)
                 = KeptLike(Leaf(i), ArchiveEntries[i].data)
        /\ \A k, h \in 1..Len(students) :
              k # h => students[k].name # students[h].name
        /\ FileCount(students) = Cardinality(KeptEntries)
        /\ \A k \in 1..Len(students) : students[k].files # <<>>

\* The same without the bytes: the counts only.
C30_Counts ==
    Extracted =>
        /\ \A k, h \in 1..Len(students) :
              k # h => students[k].name # students[h].name
        /\ FileCount(students) = Cardinality(KeptEntries)
        /\ \A k \in 1..Len(students) : students[k].files # <<>>

(***************************************************************************)
(* The orchestrator: order, permits, raising callback, termination.        *)
(***************************************************************************)
\* The outcome of a student, from what its call gave.
OutcomeOf(s) == task_outcome(mode, s, call_unit(mode, s, response[s])).value

\* The students in the order in which their tasks ended.
CompletionOrder == [k \in 1..Len(progress) |-> progress[k].student_name]

\* C25: when the orchestrator has returned, the i-th element of the list is
\* the outcome of the i-th student of the input mapping, whatever the order in
\* which the tasks have ended.
C25_SubmissionOrder ==
    Returned =>
        /\ Len(results) = total
        /\ \A i \in 1..total :
              /\ results[i] = OutcomeOf(student_submissions[i])
              /\ mode = "free" =>
                    results[i].student_name = student_submissions[i]

\* The tasks ended in the reverse of the submission order, the first and the
\* last student with different outcomes.
C25_Witness ==
    /\ pc = "returned"
    /\ progress_callback
    /\ total = MaxStudents
    /\ \A k \in 1..total :
          CompletionOrder[k] = student_submissions[total + 1 - k]
    /\ CallFailed(student_submissions[1])
    /\ ~CallFailed(student_submissions[total])

\* C26: in every state the permits held by the tasks and the free permits
\* add up to max_concurrent; a task that has ended, by a return or by an
\* exception, holds none, a task that waits holds none, and when the
\* orchestrator has returned all max_concurrent permits are free.
C26_PermitsConserved ==
    /\ semaphore + Cardinality(Holders) = max_concurrent
    /\ semaphore \in 0..max_concurrent
    /\ \A s \in Students :
          state[s] \in {"waiting", "done", "raised"} => s \notin Holders
    /\ Returned => semaphore = max_concurrent /\ Holders = {}

\* There are more tasks than permits; one task has ended on a failure and
\* given its permit back while another one holds a permit.
C26_Witness ==
    /\ total > max_concurrent
    /\ \E s \in Students : state[s] = "done" /\ IsException(Payload(task_result[s]))
    /\ Holders # {}
    /\ semaphore = max_concurrent - 1

Terminal == {s \in Students : state[s] \in {"done", "raised"}}
Notifications(s) ==
    Cardinality({k \in 1..Len(progress) : progress[k].student_name = s})

\* C27 (as claimed): also with a callback that raises, the counter is
\* incremented once per ended task and the callback is invoked once per ended
\* task, so that the counter never exceeds the number of ended tasks nor
\* total, and a student whose call succeeded has a success outcome.
C27_OncePerTask ==
    /\ completed <= Cardinality(Terminal)
    /\ completed <= total
    /\ progress_callback =>
          \A s \in Students :
              Notifications(s) = (IF s \in Terminal THEN 1 ELSE 0)
    /\ \A s \in Students :
          state[s] = "done" /\ ~CallFailed(s) =>
              ~IsException(Payload(task_result[s]))

\* C28 (as claimed): whatever the callback does, no task raises and the
\* orchestrator does not raise; when it has returned, the list has one
\* outcome per student.
C28_CallbackNeverEscapes ==
    /\ pc # "raised"
    /\ \A s \in Students : state[s] # "raised"
    /\ Returned => Len(results) = total

\* C29: for every max_concurrent >= 1 and every number of students, zero and
\* more than max_concurrent included, when every started call eventually
\* returns or raises, every task is eventually admitted and ends, and the
\* orchestrator eventually returns: no task waits for a permit forever.
C29_Termination ==
    /\ <>(Returned /\ \A s \in Students : state[s] = "done")
    /\ \A s \in {AllNames[i] : i \in 1..MaxLiveStudents} :
          (s \in Students /\ state[s] = "waiting")
              ~> (s \in Students /\ state[s] = "done")

\* A run with more students than permits has returned, one call having
\* raised.
C29_Witness ==
    /\ pc = "returned"
    /\ total > max_concurrent
    /\ total = MaxLiveStudents
    /\ \E s \in Students : response[s].raised \in CallErrors
====
